---- MODULE Spec2Model ----
(***************************************************************************)
(* Message batching and canvas synchronisation of Paper for Slack.         *)
(*                                                                         *)
(* The repository holds three builds of the bot:                           *)
(*   index.js             token mode and OAuth mode, `pendingUpdate` flag  *)
(*   paper-enterprise.js  multi-workspace, `processing` flag and           *)
(*                        `processingLocks` map                            *)
(*   app.js               multi-workspace, no flag                         *)
(* Each build has its own specification below.                             *)
(*                                                                         *)
(* JavaScript runs a handler without interruption up to its next `await`;  *)
(* every action below is one such run: it resumes one suspended call with  *)
(* the outcome of the call it was awaiting, executes up to the next        *)
(* `await` and issues that call.  The pc of a suspended call names the     *)
(* call it is awaiting.  The await of generateCanvasTitle reads and writes *)
(* nothing shared and never throws; it is folded into the platform call    *)
(* that follows it.  A reply sent with `say` as the last statement of a    *)
(* handler is folded into the step before it.                              *)
(***************************************************************************)
EXTENDS Integers, Sequences, FiniteSets, Bags, TLC

VARIABLES
    env,                  \* process.env: the names of the variables that are set
    build,                \* which entry point runs: "index", "enterprise" or "app";
                          \* "starting" before index.js has chosen its mode,
                          \* "halted" once the process has exited
    isOAuthMode,          \* index.js:168  mode selected at start-up
    sequential,           \* scheduling of the run: canvas writers never overlap
    lastTs,               \* message.ts of the last message of the run
    now,                  \* Date.now(), in milliseconds since start-up
    nextTs,               \* message.ts of the next incoming message
    channelData,          \* index.js:254  Map channelId -> {messages, lastBatchTime, pendingUpdate}
    canvasData,           \* index.js:255  Map channelId -> canvas id
    bootstrappedChannels, \* index.js:256  Set of channel ids
    workspaceData,        \* paper-enterprise.js:296, app.js:294  per-channel record
    processingLocks,      \* paper-enterprise.js:297  keys with a canvas operation in progress
    procs,                \* bag of suspended async calls and pending setTimeout callbacks
    attached,             \* platform side: the canvas attached to each channel (0: none)
    nextCanvas,           \* platform side: the id the next created canvas gets
    createCalls,          \* history: conversations.canvases.create calls issued per channel
    cacheCleared          \* history: the channel's canvas or its cached id was discarded

run == <<env, build, isOAuthMode, sequential, lastTs>>
indexStore == <<channelData, canvasData, bootstrappedChannels>>
entStore == <<workspaceData, processingLocks>>
platform == <<attached, nextCanvas>>
history == <<createCalls, cacheCleared>>

vars == <<run, now, nextTs, indexStore, entStore, procs, platform, history>>

\* index.js validateEnvironmentVariables: the variables it requires
required == {"SLACK_BOT_TOKEN", "SLACK_SIGNING_SECRET", "SLACK_APP_TOKEN", "OPENAI_API_KEY"}
\* index.js hasOAuthCreds: the variables of the OAuth configuration
OAuthVars == {"SLACK_CLIENT_ID", "SLACK_CLIENT_SECRET"}
EnvVars == required \cup OAuthVars

----------------------------------------------------------------------------
(* Bounds of the model *)

MaxMsgs == 3         \* messages delivered in one run
MaxProcs == 2        \* async calls and timers alive at once
MaxCanvases == 2     \* canvases the platform creates in one run
MaxMinutes == 15     \* length of a run on the clock; shorter than the hour after
                     \* which the hourly cleanup interval could drop a record
MaxCount == 2        \* the history counter stops counting here
NearCap == 98        \* a preloaded buffer two messages short of the cap

Channels == {"C1"}
ObjIds == 1..(MaxProcs + 1)

(* Program constants: index.js CONFIG *)
MINUTE == 60 * 1000
BATCH_TIME_WINDOW == 2 * 60 * 1000
BATCH_MESSAGE_LIMIT == 10
CANVAS_UPDATE_DEBOUNCE == 3 * 60 * 1000
MAX_MESSAGES_FOR_SUMMARY == 500
MIN_MESSAGES_FOR_BOOTSTRAP == 10
AUTO_UPDATE_AGE == 15 * 60 * 1000

Min(a, b) == IF a < b THEN a ELSE b

\* the sequence a, a+1, ..., b
Range(a, b) == [i \in 1..(b - a + 1) |-> a + i - 1]

\* Array.prototype.slice(-k), k > 0
LastK(s, k) == IF Len(s) <= k THEN s ELSE SubSeq(s, Len(s) - k + 1, Len(s))

\* Array.prototype.slice(k)
From(s, k) == SubSeq(s, k + 1, Len(s))

----------------------------------------------------------------------------
(* Suspended calls *)

\* busy: the channel's pendingUpdate as an app_mention summary request found
\* it on arrival; the handler never reads it (kept until its history returns)
Free == [kind |-> "free", pc |-> "idle", ch |-> "C1", obj |-> 0, cid |-> 0,
         say |-> FALSE, wc |-> FALSE, snap |-> <<>>, busy |-> FALSE]

One(r) == SetToBag({r})
Live == BagToSet(procs)
Spawn(ps, r) == ps (+) One(r)
Drop(ps, r) == ps (-) One(r)
Move(ps, r, r2) == (ps (-) One(r)) (+) One(r2)
Room(ps) == MaxProcs - BagCardinality(ps)

\* how many calls of the bag satisfy P
Count(ps, P(_)) ==
    LET S == {r \in BagToSet(ps) : P(r)}
        sum[T \in SUBSET S] ==
            IF T = {} THEN 0
            ELSE LET r == CHOOSE x \in T : TRUE IN CopiesIn(r, ps) + sum[T \ {r}]
    IN sum[S]

\* A canvas writer is a call between the start of generateSummary and the
\* return of updateCanvas.
WriterPcs == {"summary", "uinfo", "uinstall", "lookup", "create", "notify", "edit",
              "titleedit", "fallback", "wlookup", "wcreate", "wedit",
              "uclient", "lclient"}
WritersOf(ps, c) == LET W(r) == r.ch = c /\ r.pc \in WriterPcs IN Count(ps, W)

\* In a sequential run a canvas writer starts only when none is in flight.
MayStartWriter(c) == sequential => WritersOf(procs, c) = 0

Bump(f, c) == IF sequential THEN [f EXCEPT ![c] = Min(@ + 1, MaxCount)] ELSE f
Clear(f, c) == [f EXCEPT ![c] = sequential]

----------------------------------------------------------------------------
(* index.js: the channel state store *)

\* A channel without an entry in channelData.  obj is the identity of the
\* record object (0: no record): processBatch keeps a reference to the record
\* it started with, and the Map may hold a newer record by the time it ends.
NoData == [obj |-> 0, messages |-> <<>>, lastBatchTime |-> 0, pendingUpdate |-> FALSE]

\* An object identity no record and no suspended call refers to.
NewObj(cd) ==
    LET unused == {o \in ObjIds : /\ \A c \in Channels : cd[c].obj # o
                                  /\ \A r \in Live : r.obj # o}
    IN CHOOSE o \in unused : \A o2 \in unused : o <= o2

initChannelData(cd, c) ==
    IF cd[c].obj # 0 THEN cd
    ELSE [cd EXCEPT ![c] = [obj |-> NewObj(cd), messages |-> <<>>,
                            lastBatchTime |-> now, pendingUpdate |-> FALSE]]

\* (an append that drops the newest messages beyond the cap, not the oldest)
addMessageToBatchKeepsOldest(cd, c, ts) ==
    LET cd1 == initChannelData(cd, c)
        pushed == Append(cd1[c].messages, ts)
    IN [cd1 EXCEPT ![c].messages =
            IF Len(pushed) > MAX_MESSAGES_FOR_SUMMARY
            THEN SubSeq(pushed, 1, MAX_MESSAGES_FOR_SUMMARY) ELSE pushed]

addMessageToBatch(cd, c, ts) ==
    LET cd1 == initChannelData(cd, c)
        pushed == Append(cd1[c].messages, ts)
    IN [cd1 EXCEPT ![c].messages =
            IF Len(pushed) > MAX_MESSAGES_FOR_SUMMARY
            THEN LastK(pushed, MAX_MESSAGES_FOR_SUMMARY) ELSE pushed]

shouldProcessBatch(cd, c) ==
    /\ cd[c].obj # 0
    /\ \/ now - cd[c].lastBatchTime >= BATCH_TIME_WINDOW
       \/ Len(cd[c].messages) >= BATCH_MESSAGE_LIMIT
    /\ ~cd[c].pendingUpdate

PurgeData(cd, c) == [cd EXCEPT ![c] = NoData]
PurgeCanvas(cv, c) == [cv EXCEPT ![c] = 0]

\* paper-enterprise.js and app.js: a channel getChannelData has not seen yet
NoChannel == [exists |-> FALSE, messages |-> <<>>, canvasId |-> 0, lastUpdate |-> 0,
              processing |-> FALSE]

----------------------------------------------------------------------------
(* Initial states.  A run starts right after start-up (no channel known) or
   from a quiet moment of a channel the bot has served for a while: in
   index.js the channel was bootstrapped from a history too short for a
   canvas and Preload messages have arrived since without reaching the
   batch threshold. *)

Preloads == {0, BATCH_MESSAGE_LIMIT - 2}

InitCommon(k) ==
    /\ now = 0
    /\ nextTs = k + 1
    /\ lastTs = k + MaxMsgs
    /\ procs = EmptyBag
    /\ attached \in [Channels -> {0, 1}]
    /\ nextCanvas = 2
    /\ createCalls = [c \in Channels |-> 0]
    /\ cacheCleared = [c \in Channels |-> FALSE]

InitIndex(k) ==
    /\ build = "index"
    /\ InitCommon(k)
    /\ channelData = [c \in Channels |->
          IF k = 0 THEN NoData
          ELSE [obj |-> 1, messages |-> Range(1, k), lastBatchTime |-> 0,
                pendingUpdate |-> FALSE]]
    /\ canvasData = [c \in Channels |-> 0]
    /\ bootstrappedChannels = IF k = 0 THEN {} ELSE Channels
    /\ workspaceData = [c \in Channels |-> NoChannel]
    /\ processingLocks = {}

Init ==
    /\ isOAuthMode = FALSE
    /\ env = required
    /\ sequential = FALSE
    /\ \E k \in Preloads : InitIndex(k)

----------------------------------------------------------------------------
(* index.js: what a call does when updateCanvas returns to it *)

\* processBatch after `await updateCanvas`: data.lastBatchTime = Date.now() in
\* the try block, data.pendingUpdate = false in the finally block.  Both are
\* writes to the record processBatch started with, which is the Map's record
\* only if the channel was not purged meanwhile.
\* (a processBatch whose finally block leaves the flag alone)
processBatchEndKeepsFlag(cd, r) ==
    [cd EXCEPT ![r.ch] =
        IF @.obj = r.obj THEN [@ EXCEPT !.lastBatchTime = now] ELSE @]

processBatchEnd(cd, r) ==
    [cd EXCEPT ![r.ch] =
        IF @.obj = r.obj
        THEN [@ EXCEPT !.lastBatchTime = now, !.pendingUpdate = FALSE]
        ELSE @]

\* The caller of updateCanvas or updateCanvasWithClient resumes.  cd, cv and
\* bs are the stores as the callee left them.
Return(r, cd, cv, bs) ==
    /\ canvasData' = cv
    /\ CASE r.kind = "batch" ->
              /\ channelData' = processBatchEnd(cd, r)
              /\ bootstrappedChannels' = bs
              /\ procs' = Drop(procs, r)
         [] r.kind = "boot" /\ r.say ->
              \* await say(...) comes before bootstrappedChannels.add
              /\ channelData' = cd
              /\ bootstrappedChannels' = bs
              /\ procs' = Move(procs, r, [r EXCEPT !.pc = "say"])
         [] r.kind = "boot" /\ ~r.say ->
              /\ channelData' = initChannelData(cd, r.ch)
              /\ bootstrappedChannels' = bs \cup {r.ch}
              /\ procs' = Drop(procs, r)
         [] OTHER ->
              \* app_mention: the handler returns; it replies only for more
              \* than AI_TOKEN_SAFE_LIMIT (400) messages, more than HistorySizes holds
              /\ channelData' = cd
              /\ bootstrappedChannels' = bs
              /\ procs' = Drop(procs, r)

ReturnUnchanged(r) == Return(r, channelData, canvasData, bootstrappedChannels)

\* channel_not_found: channelData.delete, canvasData.delete,
\* bootstrappedChannels.delete, then return to the caller.
PurgeAndReturn(r) ==
    /\ Return(r, PurgeData(channelData, r.ch), PurgeCanvas(canvasData, r.ch),
              bootstrappedChannels \ {r.ch})
    /\ cacheCleared' = Clear(cacheCleared, r.ch)

----------------------------------------------------------------------------
(* index.js: event handlers and processBatch *)

BootTimer(c) == [Free EXCEPT !.kind = "boot", !.pc = "timer", !.ch = c]
\* setTimeout(() => processBatch(channelId), 1000)
BatchTimer(c) == [Free EXCEPT !.kind = "batch", !.pc = "timer", !.ch = c]

\* app.message
OnMessage(c) ==
    /\ build = "index"
    /\ nextTs <= lastTs
    /\ LET needBoot == c \notin bootstrappedChannels
           cd1 == addMessageToBatch(channelData, c, nextTs)
           needBatch == shouldProcessBatch(cd1, c)
           ps1 == IF needBoot THEN Spawn(procs, BootTimer(c)) ELSE procs
           ps2 == IF needBatch THEN Spawn(ps1, BatchTimer(c)) ELSE ps1
       IN /\ BagCardinality(ps2) <= MaxProcs
          /\ channelData' = cd1
          /\ procs' = ps2
    /\ nextTs' = nextTs + 1
    /\ UNCHANGED <<run, now, canvasData, bootstrappedChannels, entStore, platform, history>>

\* app.event('member_joined_channel') for the bot's own user: auth.test, then
\* setTimeout(() => bootstrapChannelCanvasWithClient(channel, client, teamId, say), 2000)
OnMemberJoined(c) ==
    /\ build = "index"
    /\ Room(procs) > 0
    /\ procs' = Spawn(procs, [BootTimer(c) EXCEPT !.say = TRUE, !.wc = TRUE])
    /\ UNCHANGED <<run, now, nextTs, indexStore, entStore, platform, history>>

\* processBatch up to `await generateSummary(data.messages)`; ps holds the
\* other calls.
processBatch(c, ps, cd) ==
    LET data == cd[c] IN
    IF data.obj = 0 \/ Len(data.messages) = 0
    THEN /\ procs' = ps
         /\ channelData' = cd
    ELSE /\ channelData' = [cd EXCEPT ![c].pendingUpdate = TRUE]
         /\ procs' = Spawn(ps, [Free EXCEPT !.kind = "batch", !.pc = "summary",
                                            !.ch = c, !.obj = data.obj])

\* the callback of setTimeout(() => processBatch(channelId), 1000)
BatchTimerFires(r) ==
    /\ build = "index"
    /\ r.kind = "batch" /\ r.pc = "timer"
    /\ MayStartWriter(r.ch)
    /\ processBatch(r.ch, Drop(procs, r), channelData)
    /\ UNCHANGED <<run, now, nextTs, canvasData, bootstrappedChannels, entStore,
                   platform, history>>

\* one round of autoUpdateCanvases for one channel
autoUpdateCanvases(c) ==
    /\ build = "index"
    /\ Room(procs) > 0
    /\ MayStartWriter(c)
    /\ channelData[c].obj # 0
    /\ now - channelData[c].lastBatchTime >= AUTO_UPDATE_AGE
    /\ Len(channelData[c].messages) > 0
    /\ ~channelData[c].pendingUpdate
    /\ processBatch(c, procs, channelData)
    /\ UNCHANGED <<run, now, nextTs, canvasData, bootstrappedChannels, entStore,
                   platform, history>>

----------------------------------------------------------------------------
(* index.js: updateCanvas, single-workspace branch *)

IssueCreate(r, pc) ==
    /\ procs' = Move(procs, r, [r EXCEPT !.pc = pc, !.cid = 0])
    /\ createCalls' = Bump(createCalls, r.ch)

\* updateCanvasWithClient up to its first platform call
EnterWithClient(r) ==
    IF canvasData[r.ch] # 0
    THEN procs' = Move(procs, r, [r EXCEPT !.pc = "wedit", !.cid = canvasData[r.ch]])
    ELSE procs' = Move(procs, r, [r EXCEPT !.pc = "wlookup"])

\* generateSummary returned (a summary or, when the gateway failed, the
\* placeholder); the canvas update runs up to its first platform call.
SummaryReturns(r) ==
    /\ build = "index"
    /\ r.kind \in {"batch", "boot", "mention"} /\ r.pc = "summary"
    /\ IF r.kind = "boot" /\ r.wc
       THEN EnterWithClient(r)
       ELSE IF isOAuthMode
       THEN procs' = Move(procs, r, [r EXCEPT !.pc = "uinfo"])
       ELSE IF canvasData[r.ch] # 0
       THEN procs' = Move(procs, r, [r EXCEPT !.pc = "edit", !.cid = canvasData[r.ch]])
       ELSE procs' = Move(procs, r, [r EXCEPT !.pc = "lookup"])
    /\ UNCHANGED <<run, now, nextTs, indexStore, entStore, platform, history>>

\* getExistingCanvasId: conversations.info returned
LookupReturns(r) ==
    /\ build = "index"
    /\ r.pc = "lookup"
    /\ \/ /\ attached[r.ch] # 0           \* the channel has a canvas
          /\ canvasData' = [canvasData EXCEPT ![r.ch] = attached[r.ch]]
          /\ procs' = Move(procs, r, [r EXCEPT !.pc = "edit", !.cid = attached[r.ch]])
          /\ UNCHANGED <<channelData, bootstrappedChannels, createCalls, cacheCleared>>
       \/ /\ attached[r.ch] = 0           \* it has none
          /\ IssueCreate(r, "create")
          /\ UNCHANGED <<indexStore, cacheCleared>>
       \/ /\ PurgeAndReturn(r)            \* channel_not_found
          /\ UNCHANGED createCalls
       \/ /\ IssueCreate(r, "create")     \* any other error: null
          /\ UNCHANGED <<indexStore, cacheCleared>>
    /\ UNCHANGED <<run, now, nextTs, entStore, platform>>

\* (an updateCanvas that stores a canvas id although the create call failed)
CreateReturnsCachesOnFailure(r) ==
    /\ build = "index"
    /\ r.pc = "create"
    /\ \/ /\ nextCanvas <= MaxCanvases + 1
          /\ attached' = [attached EXCEPT ![r.ch] = nextCanvas]
          /\ nextCanvas' = nextCanvas + 1
          /\ canvasData' = [canvasData EXCEPT ![r.ch] = nextCanvas]
          /\ procs' = Move(procs, r, [r EXCEPT !.pc = "notify", !.cid = nextCanvas])
          /\ UNCHANGED <<channelData, bootstrappedChannels, cacheCleared>>
       \/ /\ PurgeAndReturn(r)
          /\ UNCHANGED platform
       \/ /\ procs' = Move(procs, r, [r EXCEPT !.pc = "fallback"])
          /\ canvasData' = [canvasData EXCEPT ![r.ch] = nextCanvas]
          /\ UNCHANGED <<channelData, bootstrappedChannels, platform, cacheCleared>>
    /\ UNCHANGED <<run, now, nextTs, entStore, createCalls>>

\* (an updateCanvas that does not store the id of the canvas it created)
CreateReturnsForgetsId(r) ==
    /\ build = "index"
    /\ r.pc = "create"
    /\ \/ /\ nextCanvas <= MaxCanvases + 1
          /\ attached' = [attached EXCEPT ![r.ch] = nextCanvas]
          /\ nextCanvas' = nextCanvas + 1
          /\ procs' = Move(procs, r, [r EXCEPT !.pc = "notify", !.cid = nextCanvas])
          /\ UNCHANGED <<indexStore, cacheCleared>>
       \/ /\ PurgeAndReturn(r)
          /\ UNCHANGED platform
       \/ /\ procs' = Move(procs, r, [r EXCEPT !.pc = "fallback"])
          /\ UNCHANGED <<indexStore, platform, cacheCleared>>
    /\ UNCHANGED <<run, now, nextTs, entStore, createCalls>>

\* conversations.canvases.create returned
CreateReturns(r) ==
    /\ build = "index"
    /\ r.pc = "create"
    /\ \/ /\ nextCanvas <= MaxCanvases + 1
          /\ attached' = [attached EXCEPT ![r.ch] = nextCanvas]
          /\ nextCanvas' = nextCanvas + 1
          /\ canvasData' = [canvasData EXCEPT ![r.ch] = nextCanvas]
          /\ procs' = Move(procs, r, [r EXCEPT !.pc = "notify", !.cid = nextCanvas])
          /\ UNCHANGED <<channelData, bootstrappedChannels, cacheCleared>>
       \/ /\ PurgeAndReturn(r)            \* channel_not_found
          /\ UNCHANGED platform
       \/ /\ procs' = Move(procs, r, [r EXCEPT !.pc = "fallback"])   \* any other error
          /\ UNCHANGED <<indexStore, platform, cacheCleared>>
    /\ UNCHANGED <<run, now, nextTs, entStore, createCalls>>

\* team.info (its failure is caught) and chat.postMessage of the canvas link
NotifyReturns(r) ==
    /\ build = "index"
    /\ r.pc = "notify"
    /\ \/ /\ ReturnUnchanged(r)
          /\ UNCHANGED cacheCleared
       \/ PurgeAndReturn(r)               \* channel_not_found
       \/ /\ procs' = Move(procs, r, [r EXCEPT !.pc = "fallback"])
          /\ UNCHANGED <<indexStore, cacheCleared>>
    /\ UNCHANGED <<run, now, nextTs, entStore, platform, createCalls>>

\* canvases.edit (replace content) returned
EditReturns(r) ==
    /\ build = "index"
    /\ r.pc = "edit"
    /\ \/ /\ r.cid = attached[r.ch]
          /\ procs' = Move(procs, r, [r EXCEPT !.pc = "titleedit"])
          /\ UNCHANGED <<indexStore, cacheCleared>>
       \/ /\ r.cid # attached[r.ch]       \* canvas_not_found
          /\ procs' = Move(procs, r, [r EXCEPT !.pc = "fallback"])
          /\ UNCHANGED <<indexStore, cacheCleared>>
       \/ PurgeAndReturn(r)               \* channel_not_found
       \/ /\ procs' = Move(procs, r, [r EXCEPT !.pc = "fallback"])   \* any other error
          /\ UNCHANGED <<indexStore, cacheCleared>>
    /\ UNCHANGED <<run, now, nextTs, entStore, platform, createCalls>>

\* (an updateCanvas whose title edit is not wrapped in its own try/catch)
TitleEditReturnsUncaught(r) ==
    /\ build = "index"
    /\ r.pc = "titleedit"
    /\ \/ /\ ReturnUnchanged(r)
          /\ UNCHANGED history
       \/ /\ procs' = Move(procs, r, [r EXCEPT !.pc = "fallback"])
          /\ UNCHANGED <<indexStore, history>>
    /\ UNCHANGED <<run, now, nextTs, entStore, platform>>

\* canvases.edit (replace title) returned; its failure is caught
TitleEditReturns(r) ==
    /\ build = "index"
    /\ r.pc = "titleedit"
    /\ ReturnUnchanged(r)
    /\ UNCHANGED <<run, now, nextTs, entStore, platform, history>>

\* the fallback chat.postMessage returned
FallbackReturns(r) ==
    /\ build = "index"
    /\ r.pc = "fallback"
    /\ \/ /\ ReturnUnchanged(r)
          /\ UNCHANGED cacheCleared
       \/ PurgeAndReturn(r)               \* channel_not_found
    /\ UNCHANGED <<run, now, nextTs, entStore, platform, createCalls>>

----------------------------------------------------------------------------
(* index.js: updateCanvasWithClient *)

\* conversations.info returned
WithClientLookupReturns(r) ==
    /\ build = "index"
    /\ r.pc = "wlookup"
    /\ \/ /\ attached[r.ch] # 0
          /\ canvasData' = [canvasData EXCEPT ![r.ch] = attached[r.ch]]
          /\ procs' = Move(procs, r, [r EXCEPT !.pc = "wedit", !.cid = attached[r.ch]])
          /\ UNCHANGED <<channelData, bootstrappedChannels, createCalls, cacheCleared>>
       \/ /\ attached[r.ch] = 0
          /\ IssueCreate(r, "wcreate")
          /\ UNCHANGED <<indexStore, cacheCleared>>
       \/ /\ PurgeAndReturn(r)            \* channel_not_found
          /\ UNCHANGED createCalls
       \/ /\ IssueCreate(r, "wcreate")    \* any other error is logged
          /\ UNCHANGED <<indexStore, cacheCleared>>
    /\ UNCHANGED <<run, now, nextTs, entStore, platform>>

\* conversations.canvases.create returned
WithClientCreateReturns(r) ==
    /\ build = "index"
    /\ r.pc = "wcreate"
    /\ \/ /\ nextCanvas <= MaxCanvases + 1
          /\ attached' = [attached EXCEPT ![r.ch] = nextCanvas]
          /\ nextCanvas' = nextCanvas + 1
          /\ Return(r, channelData, [canvasData EXCEPT ![r.ch] = nextCanvas],
                    bootstrappedChannels)
          /\ UNCHANGED cacheCleared
       \/ /\ PurgeAndReturn(r)            \* channel_not_found
          /\ UNCHANGED platform
       \/ /\ ReturnUnchanged(r)           \* response not ok, or any other error
          /\ UNCHANGED <<platform, cacheCleared>>
    /\ UNCHANGED <<run, now, nextTs, entStore, createCalls>>

\* canvases.edit returned
WithClientEditReturns(r) ==
    /\ build = "index"
    /\ r.pc = "wedit"
    /\ \/ /\ r.cid = attached[r.ch]
          /\ ReturnUnchanged(r)
          /\ UNCHANGED cacheCleared
       \/ /\ r.cid # attached[r.ch]       \* canvas_not_found: canvasData.delete
          /\ Return(r, channelData, PurgeCanvas(canvasData, r.ch), bootstrappedChannels)
          /\ cacheCleared' = Clear(cacheCleared, r.ch)
       \/ PurgeAndReturn(r)               \* channel_not_found
       \/ /\ ReturnUnchanged(r)           \* response not ok, or any other error
          /\ UNCHANGED cacheCleared
    /\ UNCHANGED <<run, now, nextTs, entStore, platform, createCalls>>

----------------------------------------------------------------------------
(* index.js: bootstrap and the app_mention handler *)

\* Filtered lengths of a conversations.history result.
HistorySizes == {0, 2, 3, MIN_MESSAGES_FOR_BOOTSTRAP}

\* bootstrapChannelCanvas and bootstrapChannelCanvasWithClient up to
\* `await conversations.history`
EnterBootstrap(r) ==
    IF r.ch \in bootstrappedChannels
    THEN procs' = Drop(procs, r)
    ELSE procs' = Move(procs, r, [r EXCEPT !.pc = "history"])

\* The callback of a bootstrap timer.  The timer of app.message resolves the
\* workspace client first in OAuth mode; the timer of member_joined_channel
\* has the client of its event.
BootTimerFires(r) ==
    /\ build = "index"
    /\ r.kind = "boot" /\ r.pc = "timer"
    /\ IF isOAuthMode /\ ~r.wc
       THEN procs' = Move(procs, r, [r EXCEPT !.pc = "binfo"])
       ELSE EnterBootstrap(r)
    /\ UNCHANGED <<run, now, nextTs, indexStore, entStore, platform, history>>

\* The bootstrap that the timer of member_joined_channel started: its callback
\* awaits bootstrapChannelCanvasWithClient outside any try block.  In
\* single-workspace mode no other caller passes a client; in multi-workspace
\* mode the record does not tell this caller from app_mention, whose handler
\* catches, and the model follows the catching caller.
JoinedCall(r) == r.kind = "boot" /\ r.say /\ r.wc /\ ~isOAuthMode

\* The `await say` in the catch block of the bootstrap rejected and nothing
\* catches it: an unhandled rejection.  Node either reports it and goes on,
\* which is the return of the call, or ends the process, which is this step.
UnhandledRejection ==
    /\ build' = "halted"
    /\ procs' = EmptyBag
    /\ channelData' = [c \in Channels |-> NoData]
    /\ canvasData' = [c \in Channels |-> 0]
    /\ bootstrappedChannels' = {}
    /\ UNCHANGED <<env, isOAuthMode, sequential, lastTs, now, nextTs, entStore, platform, history>>

\* what bootstrap does with the history, or with the error, when its replies are sent
HistoryResult(r) ==
    /\ \/ \E n \in HistorySizes :
            IF n >= MIN_MESSAGES_FOR_BOOTSTRAP
            THEN /\ MayStartWriter(r.ch)
                 /\ procs' = Move(procs, r, [r EXCEPT !.pc = "summary"])
                 /\ UNCHANGED bootstrappedChannels
            ELSE /\ procs' = Drop(procs, r)
                 /\ bootstrappedChannels' = bootstrappedChannels \cup {r.ch}
       \/ \* channel_not_found, missing_scope or any other error
          /\ procs' = Drop(procs, r)
          /\ bootstrappedChannels' = bootstrappedChannels \cup {r.ch}
    /\ UNCHANGED <<run, now, nextTs, channelData, canvasData, entStore, platform, history>>

\* bootstrap: conversations.history returned
HistoryReturns(r) ==
    /\ build = "index"
    /\ r.kind = "boot" /\ r.pc = "history"
    /\ \/ HistoryResult(r)
       \/ JoinedCall(r) /\ UnhandledRejection   \* an error, and the say of the catch block rejected

\* bootstrap: the reply after the canvas update was sent, or failed
SayReturns(r) ==
    /\ build = "index"
    /\ r.kind = "boot" /\ r.pc = "say"
    /\ \/ /\ bootstrappedChannels' = bootstrappedChannels \cup {r.ch}
          /\ \/ channelData' = initChannelData(channelData, r.ch)
             \/ channelData' = channelData      \* say threw: the catch block
          /\ procs' = Drop(procs, r)
          /\ UNCHANGED <<run, now, nextTs, canvasData, entStore, platform, history>>
       \/ JoinedCall(r) /\ UnhandledRejection   \* and the say of the catch block rejected

\* app.event('app_mention') with 'summary' or 'update' in the text
OnMention(c) ==
    /\ build = "index"
    /\ Room(procs) > 0
    /\ LET r == [Free EXCEPT !.ch = c, !.say = TRUE,
                    !.kind = IF c \in bootstrappedChannels THEN "mention" ELSE "boot",
                    !.busy = c \in bootstrappedChannels /\ channelData[c].pendingUpdate]
       IN IF isOAuthMode
          THEN procs' = Spawn(procs, [r EXCEPT !.pc = IF r.kind = "boot" THEN "binfo" ELSE "minfo"])
          ELSE procs' = Spawn(procs, [r EXCEPT !.pc = IF r.kind = "boot" THEN "history" ELSE "mhistory"])
    /\ UNCHANGED <<run, now, nextTs, indexStore, entStore, platform, history>>

\* app_mention: conversations.history returned
MentionHistoryReturns(r) ==
    /\ build = "index"
    /\ r.kind = "mention" /\ r.pc = "mhistory"
    /\ \/ \E n \in HistorySizes :
            IF n >= 3
            THEN /\ MayStartWriter(r.ch)
                 /\ procs' = Move(procs, r, [r EXCEPT !.pc = "summary", !.busy = FALSE])
            ELSE procs' = Drop(procs, r)
       \/ procs' = Drop(procs, r)         \* any error: a reply only
    /\ UNCHANGED <<run, now, nextTs, indexStore, entStore, platform, history>>

----------------------------------------------------------------------------
(* index.js, OAuth mode: resolving the workspace client *)

\* bootstrap from app.message or app_mention: app.client.conversations.info returned
BootInfoReturns(r) ==
    /\ build = "index"
    /\ r.pc = "binfo"
    /\ \/ procs' = Move(procs, r, [r EXCEPT !.pc = "binstall"])
       \/ procs' = Drop(procs, r)         \* error: return, the channel stays unmarked
    /\ UNCHANGED <<run, now, nextTs, indexStore, entStore, platform, history>>

\* bootstrap: installationStore.fetchInstallation returned
BootInstallReturns(r) ==
    /\ build = "index"
    /\ r.pc = "binstall"
    /\ \/ IF r.ch \in bootstrappedChannels
          THEN procs' = Drop(procs, r)
          ELSE procs' = Move(procs, r, [r EXCEPT !.pc = "history", !.wc = TRUE])
       \/ procs' = Drop(procs, r)         \* no installation, or the fetch threw
    /\ UNCHANGED <<run, now, nextTs, indexStore, entStore, platform, history>>

\* app_mention: app.client.conversations.info returned
MentionInfoReturns(r) ==
    /\ build = "index"
    /\ r.pc = "minfo"
    /\ \/ procs' = Move(procs, r, [r EXCEPT !.pc = "minstall"])
       \/ procs' = Drop(procs, r)         \* error: the outer catch replies
    /\ UNCHANGED <<run, now, nextTs, indexStore, entStore, platform, history>>

\* app_mention: installationStore.fetchInstallation returned
MentionInstallReturns(r) ==
    /\ build = "index"
    /\ r.pc = "minstall"
    /\ \/ procs' = Move(procs, r, [r EXCEPT !.pc = "mhistory"])
       \/ procs' = Drop(procs, r)         \* no installation, or the fetch threw
    /\ UNCHANGED <<run, now, nextTs, indexStore, entStore, platform, history>>

\* updateCanvas: app.client.conversations.info returned
UpdateInfoReturns(r) ==
    /\ build = "index"
    /\ r.pc = "uinfo"
    /\ \/ /\ procs' = Move(procs, r, [r EXCEPT !.pc = "uinstall"])
          /\ UNCHANGED indexStore
       \/ ReturnUnchanged(r)              \* error: return
    /\ UNCHANGED <<run, now, nextTs, entStore, platform, history>>

\* updateCanvas: installationStore.fetchInstallation returned
UpdateInstallReturns(r) ==
    /\ build = "index"
    /\ r.pc = "uinstall"
    /\ \/ /\ EnterWithClient(r)
          /\ UNCHANGED indexStore
       \/ ReturnUnchanged(r)              \* no installation
       \/ /\ procs' = Move(procs, r, [r EXCEPT !.pc = "fallback"])   \* the fetch threw
          /\ UNCHANGED indexStore
    /\ UNCHANGED <<run, now, nextTs, entStore, platform, history>>

----------------------------------------------------------------------------
(* The environment *)

\* Time passes up to the next moment a time threshold can be met.  A pending
\* setTimeout callback is due after one or two seconds, so it runs first.
Tick ==
    /\ \A r \in Live : r.pc # "timer"
    /\ \E t \in {BATCH_TIME_WINDOW, AUTO_UPDATE_AGE} :
         /\ now < t /\ t <= MaxMinutes * MINUTE
         /\ now' = t
    /\ UNCHANGED <<run, nextTs, indexStore, entStore, procs, platform, history>>

\* A user deletes the channel's canvas.
DeleteCanvas(c) ==
    /\ attached[c] # 0
    /\ attached' = [attached EXCEPT ![c] = 0]
    /\ UNCHANGED <<run, now, nextTs, indexStore, entStore, procs, nextCanvas, history>>

Environment ==
    \/ Tick
    \/ \E c \in Channels : DeleteCanvas(c)

\* index.js in token mode, in runs in which nobody joins the channel
NextNoJoin ==
    \/ \E c \in Channels : OnMessage(c)
    \/ \E c \in Channels : OnMention(c)
    \/ \E c \in Channels : autoUpdateCanvases(c)
    \/ \E r \in Live : BatchTimerFires(r)
    \/ \E r \in Live : BootTimerFires(r)
    \/ \E r \in Live : HistoryReturns(r)
    \/ \E r \in Live : SayReturns(r)
    \/ \E r \in Live : MentionHistoryReturns(r)
    \/ \E r \in Live : SummaryReturns(r)
    \/ \E r \in Live : LookupReturns(r)
    \/ \E r \in Live : CreateReturns(r)
    \/ \E r \in Live : NotifyReturns(r)
    \/ \E r \in Live : EditReturns(r)
    \/ \E r \in Live : TitleEditReturns(r)
    \/ \E r \in Live : FallbackReturns(r)
    \/ Environment

\* index.js in token mode
Next ==
    \/ NextNoJoin
    \/ \E c \in Channels : OnMemberJoined(c)
    \/ \E r \in Live : WithClientLookupReturns(r)
    \/ \E r \in Live : WithClientCreateReturns(r)
    \/ \E r \in Live : WithClientEditReturns(r)

Spec == Init /\ [][Next]_vars

\* index.js in either mode
NextOAuth ==
    \/ Next
    \/ \E r \in Live : BootInfoReturns(r)
    \/ \E r \in Live : BootInstallReturns(r)
    \/ \E r \in Live : MentionInfoReturns(r)
    \/ \E r \in Live : MentionInstallReturns(r)
    \/ \E r \in Live : UpdateInfoReturns(r)
    \/ \E r \in Live : UpdateInstallReturns(r)

\* Runs of index.js in which canvas writers never overlap.
InitSeq ==
    /\ isOAuthMode \in BOOLEAN
    /\ env = IF isOAuthMode THEN EnvVars ELSE required
    /\ sequential = TRUE
    /\ \E k \in Preloads : InitIndex(k)

SeqSpec == InitSeq /\ [][NextOAuth]_vars

----------------------------------------------------------------------------
(* paper-enterprise.js *)

\* messages a channel record can start a run with: none, a few below the
\* ten-message trigger, and a buffer close to the cap that built up while
\* the workspace had no usable installation
EntPreloads == {0, BATCH_MESSAGE_LIMIT - 2, NearCap}

\* paper-enterprise.js app.message: the buffer cap and the two triggers
BUFFER_CAP == 100
ENT_MESSAGE_TRIGGER == 10
ENT_TIME_TRIGGER == 2 * 60 * 1000
MIN_MESSAGES_TO_PROCESS == 3

InitStore(k) ==
    /\ InitCommon(k)
    /\ isOAuthMode = TRUE             \* the multi-workspace builds know no token mode
    /\ env = EnvVars
    /\ sequential = FALSE
    /\ channelData = [c \in Channels |-> NoData]
    /\ canvasData = [c \in Channels |-> 0]
    /\ bootstrappedChannels = {}
    /\ workspaceData = [c \in Channels |->
          IF k = 0 THEN NoChannel
          ELSE [NoChannel EXCEPT !.exists = TRUE, !.messages = Range(1, k)]]
    /\ processingLocks = {}

InitEnt ==
    /\ build = "enterprise"
    /\ \E k \in EntPreloads : InitStore(k)

getChannelData(wd, c) ==
    IF wd[c].exists THEN wd
    ELSE [wd EXCEPT ![c] = [NoChannel EXCEPT !.exists = TRUE, !.lastUpdate = now]]

\* the finally block of processMessages
ClearProcessing(wd, c) == [getChannelData(wd, c) EXCEPT ![c].processing = FALSE]

\* app.message
EntOnMessage(c) ==
    /\ build = "enterprise"
    /\ nextTs <= lastTs
    /\ LET wd1 == getChannelData(workspaceData, c)
           pushed == Append(wd1[c].messages, nextTs)
           kept == IF Len(pushed) > BUFFER_CAP THEN LastK(pushed, BUFFER_CAP) ELSE pushed
           timeSinceLastUpdate == now - wd1[c].lastUpdate
           shouldProcess == \/ Len(kept) >= ENT_MESSAGE_TRIGGER
                            \/ timeSinceLastUpdate > ENT_TIME_TRIGGER
       IN /\ workspaceData' = [wd1 EXCEPT ![c].messages = kept]
          /\ IF shouldProcess /\ ~wd1[c].processing
             THEN /\ Room(procs) > 0
                  /\ procs' = Spawn(procs, [Free EXCEPT !.kind = "pm", !.pc = "timer", !.ch = c])
             ELSE procs' = procs
    /\ nextTs' = nextTs + 1
    /\ UNCHANGED <<run, now, indexStore, processingLocks, platform, history>>

\* the callback of setTimeout(() => processMessages(teamId, channelId), 1000):
\* processMessages up to `await getWorkspaceClient`
processMessages(r) ==
    /\ build = "enterprise"
    /\ r.kind = "pm" /\ r.pc = "timer"
    /\ LET wd1 == getChannelData(workspaceData, r.ch) IN
       IF wd1[r.ch].processing \/ Len(wd1[r.ch].messages) < MIN_MESSAGES_TO_PROCESS
       THEN /\ workspaceData' = ClearProcessing(wd1, r.ch)
            /\ procs' = Drop(procs, r)
       ELSE /\ workspaceData' = [wd1 EXCEPT ![r.ch].processing = TRUE]
            /\ procs' = Move(procs, r, [r EXCEPT !.pc = "pclient"])
    /\ UNCHANGED <<run, now, nextTs, indexStore, processingLocks, platform, history>>

\* what installationStore.fetchInstallation can answer: an installation with
\* its bot token, one without, none (null), or an exception
Fetched == {"installation", "no token", "none", "threw"}

\* getWorkspaceClient: a WebClient, or null
getWorkspaceClient(fetched) ==
    IF fetched = "installation" THEN "WebClient" ELSE "null"

\* processMessages: getWorkspaceClient returned
ProcessClientReturns(r) ==
    /\ build = "enterprise"
    /\ r.pc = "pclient"
    /\ \E f \in Fetched :
          IF getWorkspaceClient(f) # "null"
          THEN /\ procs' = Move(procs, r, [r EXCEPT !.pc = "summary",
                                                    !.snap = workspaceData[r.ch].messages])
               /\ UNCHANGED workspaceData
          ELSE /\ workspaceData' = ClearProcessing(workspaceData, r.ch)   \* no client
               /\ procs' = Drop(procs, r)
    /\ UNCHANGED <<run, now, nextTs, indexStore, processingLocks, platform, history>>

\* The caller of updateCanvas resumes: processMessages drops the processed
\* messages and clears the flag; the mention handler replies.
EntReturn(r, wd) ==
    /\ procs' = Drop(procs, r)
    /\ IF r.kind = "pm"
       THEN workspaceData' = ClearProcessing(
                [wd EXCEPT ![r.ch].messages =
                    IF Len(@) = Len(r.snap) THEN <<>> ELSE From(@, Len(r.snap))], r.ch)
       ELSE workspaceData' = wd

\* a variant whose skipped call runs the finally block too
EntSummaryReturnsUnlocking(r) ==
    /\ build = "enterprise"
    /\ r.pc = "summary"
    /\ IF r.ch \in processingLocks
       THEN /\ EntReturn(r, workspaceData)
            /\ processingLocks' = processingLocks \ {r.ch}
       ELSE /\ procs' = Move(procs, r, [r EXCEPT !.pc = "uclient"])
            /\ processingLocks' = processingLocks \cup {r.ch}
            /\ UNCHANGED workspaceData
    /\ UNCHANGED <<run, now, nextTs, indexStore, platform, history>>

\* generateSummary returned; updateCanvas runs up to `await getWorkspaceClient`
EntSummaryReturns(r) ==
    /\ build = "enterprise"
    /\ r.pc = "summary"
    /\ IF r.ch \in processingLocks
       THEN /\ EntReturn(r, workspaceData)
            /\ UNCHANGED processingLocks
       ELSE /\ procs' = Move(procs, r, [r EXCEPT !.pc = "uclient"])
            /\ processingLocks' = processingLocks \cup {r.ch}
            /\ UNCHANGED workspaceData
    /\ UNCHANGED <<run, now, nextTs, indexStore, platform, history>>

\* updateCanvas returns: the finally block deletes the lock
Unlock(r, wd) ==
    /\ processingLocks' = processingLocks \ {r.ch}
    /\ EntReturn(r, wd)

\* updateCanvas: getWorkspaceClient returned
UpdateClientReturns(r) ==
    /\ build = "enterprise"
    /\ r.pc = "uclient"
    /\ \E f \in Fetched :
          IF getWorkspaceClient(f) # "null"
          THEN LET wd1 == getChannelData(workspaceData, r.ch) IN
               /\ workspaceData' = wd1
               /\ UNCHANGED processingLocks
               /\ IF wd1[r.ch].canvasId = 0
                  THEN procs' = Move(procs, r, [r EXCEPT !.pc = "lclient"])
                  ELSE procs' = Move(procs, r, [r EXCEPT !.pc = "edit",
                                                         !.cid = wd1[r.ch].canvasId])
          ELSE Unlock(r, workspaceData)        \* no client
    /\ UNCHANGED <<run, now, nextTs, indexStore, platform, history>>

\* getExistingCanvasId: getWorkspaceClient returned
LookupClientReturns(r) ==
    /\ build = "enterprise"
    /\ r.pc = "lclient"
    /\ \E f \in Fetched :
          IF getWorkspaceClient(f) # "null"
          THEN procs' = Move(procs, r, [r EXCEPT !.pc = "lookup"])
          ELSE procs' = Move(procs, r, [r EXCEPT !.pc = "create"])   \* no client: null
    /\ UNCHANGED <<run, now, nextTs, indexStore, entStore, platform, history>>

\* getExistingCanvasId: conversations.info returned
EntLookupReturns(r) ==
    /\ build = "enterprise"
    /\ r.pc = "lookup"
    /\ \/ /\ attached[r.ch] # 0
          /\ workspaceData' = [workspaceData EXCEPT ![r.ch].canvasId = attached[r.ch]]
          /\ procs' = Move(procs, r, [r EXCEPT !.pc = "edit", !.cid = attached[r.ch]])
       \/ /\ attached[r.ch] = 0
          /\ procs' = Move(procs, r, [r EXCEPT !.pc = "create"])
          /\ UNCHANGED workspaceData
       \/ /\ procs' = Move(procs, r, [r EXCEPT !.pc = "create"])   \* any error: null
          /\ UNCHANGED workspaceData
    /\ UNCHANGED <<run, now, nextTs, indexStore, processingLocks, platform, history>>

\* conversations.canvases.create returned
EntCreateReturns(r) ==
    /\ build = "enterprise"
    /\ r.pc = "create"
    /\ \/ /\ nextCanvas <= MaxCanvases + 1
          /\ attached' = [attached EXCEPT ![r.ch] = nextCanvas]
          /\ nextCanvas' = nextCanvas + 1
          /\ Unlock(r, [workspaceData EXCEPT ![r.ch].canvasId = nextCanvas,
                                             ![r.ch].lastUpdate = now])
       \/ /\ UNCHANGED platform           \* response not ok
          /\ Unlock(r, [workspaceData EXCEPT ![r.ch].lastUpdate = now])
       \/ /\ UNCHANGED platform           \* the call threw
          /\ Unlock(r, workspaceData)
    /\ UNCHANGED <<run, now, nextTs, indexStore, history>>

\* canvases.edit returned
EntEditReturns(r) ==
    /\ build = "enterprise"
    /\ r.pc = "edit"
    /\ \/ Unlock(r, [workspaceData EXCEPT ![r.ch].lastUpdate = now])  \* ok, or not ok
       \/ /\ r.cid # attached[r.ch]       \* canvas_not_found thrown
          /\ Unlock(r, workspaceData)
       \/ Unlock(r, workspaceData)        \* any other error thrown
    /\ UNCHANGED <<run, now, nextTs, indexStore, platform, history>>

\* app.event('app_mention') with 'summary' or 'update' in the text
EntOnMention(c) ==
    /\ build = "enterprise"
    /\ Room(procs) > 0
    /\ procs' = Spawn(procs, [Free EXCEPT !.kind = "emention", !.pc = "mclient", !.ch = c,
                                          !.say = TRUE])
    /\ UNCHANGED <<run, now, nextTs, indexStore, entStore, platform, history>>

\* app_mention: getWorkspaceClient returned
MentionClientReturns(r) ==
    /\ build = "enterprise"
    /\ r.pc = "mclient"
    /\ \E f \in Fetched :
          IF getWorkspaceClient(f) # "null"
          THEN procs' = Move(procs, r, [r EXCEPT !.pc = "mhistory"])
          ELSE procs' = Drop(procs, r)         \* no client: a reply only
    /\ UNCHANGED <<run, now, nextTs, indexStore, entStore, platform, history>>

\* app_mention: conversations.history returned
EntMentionHistoryReturns(r) ==
    /\ build = "enterprise"
    /\ r.pc = "mhistory"
    /\ \/ \E n \in HistorySizes :
            IF n >= MIN_MESSAGES_TO_PROCESS
            THEN procs' = Move(procs, r, [r EXCEPT !.pc = "summary"])
            ELSE procs' = Drop(procs, r)
       \/ procs' = Drop(procs, r)         \* any error: a reply only
    /\ UNCHANGED <<run, now, nextTs, indexStore, entStore, platform, history>>

EntActions ==
    \/ \E c \in Channels : EntOnMessage(c)
    \/ \E c \in Channels : EntOnMention(c)
    \/ \E r \in Live : processMessages(r)
    \/ \E r \in Live : ProcessClientReturns(r)
    \/ \E r \in Live : EntSummaryReturns(r)
    \/ \E r \in Live : UpdateClientReturns(r)
    \/ \E r \in Live : LookupClientReturns(r)
    \/ \E r \in Live : EntLookupReturns(r)
    \/ \E r \in Live : EntCreateReturns(r)
    \/ \E r \in Live : EntEditReturns(r)
    \/ \E r \in Live : MentionClientReturns(r)
    \/ \E r \in Live : EntMentionHistoryReturns(r)

NextEnt == EntActions \/ Environment

EntSpec == InitEnt /\ [][NextEnt]_vars

----------------------------------------------------------------------------
(* app.js *)

\* The records of app.js have no processing field: it stays FALSE here.
InitApp ==
    /\ build = "app"
    /\ \E k \in EntPreloads : InitStore(k)

\* app.message
AppOnMessage(c) ==
    /\ build = "app"
    /\ nextTs <= lastTs
    /\ LET wd1 == getChannelData(workspaceData, c)
           pushed == Append(wd1[c].messages, nextTs)
           kept == IF Len(pushed) > BUFFER_CAP THEN LastK(pushed, BUFFER_CAP) ELSE pushed
           shouldProcess == \/ Len(kept) >= ENT_MESSAGE_TRIGGER
                            \/ now - wd1[c].lastUpdate > ENT_TIME_TRIGGER
       IN /\ workspaceData' = [wd1 EXCEPT ![c].messages = kept]
          /\ IF shouldProcess
             THEN /\ Room(procs) > 0
                  /\ procs' = Spawn(procs, [Free EXCEPT !.kind = "apm", !.pc = "timer", !.ch = c])
             ELSE procs' = procs
    /\ nextTs' = nextTs + 1
    /\ UNCHANGED <<run, now, indexStore, processingLocks, platform, history>>

\* the callback of setTimeout(() => processMessages(teamId, channelId), 1000):
\* processMessages up to `await getWorkspaceClient`
AppProcessMessages(r) ==
    /\ build = "app"
    /\ r.kind = "apm" /\ r.pc = "timer"
    /\ LET wd1 == getChannelData(workspaceData, r.ch) IN
       /\ workspaceData' = wd1
       /\ IF Len(wd1[r.ch].messages) < MIN_MESSAGES_TO_PROCESS
          THEN procs' = Drop(procs, r)
          ELSE procs' = Move(procs, r, [r EXCEPT !.pc = "pclient"])
    /\ UNCHANGED <<run, now, nextTs, indexStore, processingLocks, platform, history>>

\* processMessages: getWorkspaceClient returned; generateSummary is called
\* with channelData.messages (snap: the messages it is given)
AppProcessClientReturns(r) ==
    /\ build = "app"
    /\ r.pc = "pclient"
    /\ \/ procs' = Move(procs, r, [r EXCEPT !.pc = "summary",
                                            !.snap = workspaceData[r.ch].messages])
       \/ procs' = Drop(procs, r)         \* no client
    /\ UNCHANGED <<run, now, nextTs, indexStore, entStore, platform, history>>

\* generateSummary returned; updateCanvas runs up to `await getWorkspaceClient`
AppSummaryReturns(r) ==
    /\ build = "app"
    /\ r.pc = "summary"
    /\ procs' = Move(procs, r, [r EXCEPT !.pc = "uclient"])
    /\ UNCHANGED <<run, now, nextTs, indexStore, entStore, platform, history>>

\* The caller of updateCanvas resumes: processMessages empties the buffer;
\* the mention handler replies.
AppReturn(r, wd) ==
    /\ procs' = Drop(procs, r)
    /\ IF r.kind = "apm"
       THEN workspaceData' = [wd EXCEPT ![r.ch].messages = <<>>]
       ELSE workspaceData' = wd

\* updateCanvas: getWorkspaceClient returned
AppUpdateClientReturns(r) ==
    /\ build = "app"
    /\ r.pc = "uclient"
    /\ \/ LET wd1 == getChannelData(workspaceData, r.ch) IN
          /\ workspaceData' = wd1
          /\ IF wd1[r.ch].canvasId = 0
             THEN procs' = Move(procs, r, [r EXCEPT !.pc = "create"])
             ELSE procs' = Move(procs, r, [r EXCEPT !.pc = "edit", !.cid = wd1[r.ch].canvasId])
       \/ AppReturn(r, workspaceData)     \* no client
    /\ UNCHANGED <<run, now, nextTs, indexStore, processingLocks, platform, history>>

\* conversations.canvases.create returned
AppCreateReturns(r) ==
    /\ build = "app"
    /\ r.pc = "create"
    /\ \/ /\ nextCanvas <= MaxCanvases + 1
          /\ attached' = [attached EXCEPT ![r.ch] = nextCanvas]
          /\ nextCanvas' = nextCanvas + 1
          /\ AppReturn(r, [workspaceData EXCEPT ![r.ch].canvasId = nextCanvas,
                                                ![r.ch].lastUpdate = now])
       \/ /\ UNCHANGED platform           \* response not ok
          /\ AppReturn(r, [workspaceData EXCEPT ![r.ch].lastUpdate = now])
       \/ /\ UNCHANGED platform           \* the call threw
          /\ AppReturn(r, workspaceData)
    /\ UNCHANGED <<run, now, nextTs, indexStore, processingLocks, history>>

\* canvases.edit returned
AppEditReturns(r) ==
    /\ build = "app"
    /\ r.pc = "edit"
    /\ \/ AppReturn(r, [workspaceData EXCEPT ![r.ch].lastUpdate = now])
       \/ AppReturn(r, workspaceData)     \* the call threw
    /\ UNCHANGED <<run, now, nextTs, indexStore, processingLocks, platform, history>>

\* app.event('app_mention') with 'summary' or 'update' in the text
AppOnMention(c) ==
    /\ build = "app"
    /\ Room(procs) > 0
    /\ procs' = Spawn(procs, [Free EXCEPT !.kind = "amention", !.pc = "mclient", !.ch = c,
                                          !.say = TRUE])
    /\ UNCHANGED <<run, now, nextTs, indexStore, entStore, platform, history>>

\* app_mention: getWorkspaceClient returned
AppMentionClientReturns(r) ==
    /\ build = "app"
    /\ r.pc = "mclient"
    /\ \/ procs' = Move(procs, r, [r EXCEPT !.pc = "mhistory"])
       \/ procs' = Drop(procs, r)         \* no client: a reply only
    /\ UNCHANGED <<run, now, nextTs, indexStore, entStore, platform, history>>

\* app_mention: conversations.history returned
AppMentionHistoryReturns(r) ==
    /\ build = "app"
    /\ r.pc = "mhistory"
    /\ \/ \E n \in HistorySizes :
            IF n >= MIN_MESSAGES_TO_PROCESS
            THEN procs' = Move(procs, r, [r EXCEPT !.pc = "summary"])
            ELSE procs' = Drop(procs, r)
       \/ procs' = Drop(procs, r)         \* the call threw: a reply only
    /\ UNCHANGED <<run, now, nextTs, indexStore, entStore, platform, history>>

NextApp ==
    \/ \E c \in Channels : AppOnMessage(c)
    \/ \E c \in Channels : AppOnMention(c)
    \/ \E r \in Live : AppProcessMessages(r)
    \/ \E r \in Live : AppProcessClientReturns(r)
    \/ \E r \in Live : AppSummaryReturns(r)
    \/ \E r \in Live : AppUpdateClientReturns(r)
    \/ \E r \in Live : AppCreateReturns(r)
    \/ \E r \in Live : AppEditReturns(r)
    \/ \E r \in Live : AppMentionClientReturns(r)
    \/ \E r \in Live : AppMentionHistoryReturns(r)
    \/ Environment

AppSpec == InitApp /\ [][NextApp]_vars

\* index.js in token mode and paper-enterprise.js: the two builds with a busy
\* flag.  member_joined_channel is left out: its bootstrap never reads or writes
\* the flag, and what it does to the stores (a purge on channel_not_found,
\* marking the channel bootstrapped) the mention and message bootstraps do too.
NextFlag == NextNoJoin \/ EntActions

FlagSpec == (Init \/ InitEnt) /\ [][NextFlag]_vars

\* The same two builds with buffers that start close to their caps.
IndexNearCap == MAX_MESSAGES_FOR_SUMMARY - 2

InitCap ==
    /\ isOAuthMode = FALSE
    /\ env = required
    /\ sequential = FALSE
    /\ InitIndex(IndexNearCap)

InitEntCap ==
    /\ build = "enterprise"
    /\ InitStore(NearCap)

CapSpec == (InitCap \/ InitEntCap) /\ [][NextFlag]_vars

\* An awaited call of a cycle settles (it resolves or rejects) and the cycle
\* runs on to its next await or to its end.
ResumeBatch(r) ==
    \/ SummaryReturns(r) \/ LookupReturns(r) \/ CreateReturns(r)
    \/ NotifyReturns(r) \/ EditReturns(r) \/ TitleEditReturns(r)
    \/ FallbackReturns(r)

ResumeProcess(r) ==
    \/ ProcessClientReturns(r) \/ EntSummaryReturns(r) \/ UpdateClientReturns(r)
    \/ LookupClientReturns(r) \/ EntLookupReturns(r) \/ EntCreateReturns(r)
    \/ EntEditReturns(r)

\* The same runs, in which no awaited call of a cycle stays pending forever.
FlagLiveSpec ==
    /\ FlagSpec
    /\ WF_vars(\E r \in Live : r.kind = "batch" /\ ResumeBatch(r))
    /\ WF_vars(\E r \in Live : r.kind = "pm" /\ ResumeProcess(r))

\* paper-enterprise.js in runs in which time passes, every timer callback
\* runs and no awaited call stays pending forever; messages and mentions
\* arrive or not as the users please.
EntLiveSpec ==
    /\ EntSpec
    /\ WF_vars(Tick)
    /\ WF_vars(\E r \in Live : processMessages(r))
    /\ WF_vars(\E r \in Live : r.kind = "pm" /\ ResumeProcess(r))

----------------------------------------------------------------------------
(* index.js: start-up *)

validateEnvironmentVariables(e) == required \subseteq e
hasOAuthCreds(e) == OAuthVars \subseteq e

\* The process before index.js has run, with any set of variables set.
InitStart ==
    /\ build = "starting"
    /\ env \in SUBSET EnvVars
    /\ isOAuthMode = FALSE
    /\ sequential = FALSE
    /\ InitCommon(0)
    /\ channelData = [c \in Channels |-> NoData]
    /\ canvasData = [c \in Channels |-> 0]
    /\ bootstrappedChannels = {}
    /\ workspaceData = [c \in Channels |-> NoChannel]
    /\ processingLocks = {}

\* validateEnvironmentVariables, then `new App(appConfig)`, which with the
\* OAuth configuration either succeeds or throws the initialization error
\* that makes index.js retry with the token configuration.
Startup ==
    /\ build = "starting"
    /\ IF ~validateEnvironmentVariables(env)
       THEN /\ build' = "halted"        \* process.exit(1)
            /\ UNCHANGED isOAuthMode
       ELSE /\ build' = "index"
            /\ \/ isOAuthMode' = hasOAuthCreds(env)
               \/ hasOAuthCreds(env) /\ isOAuthMode' = FALSE
    /\ UNCHANGED <<env, sequential, lastTs, now, nextTs, indexStore, entStore, procs,
                   platform, history>>

StartSpec == InitStart /\ [][Startup]_vars
----------------------------------------------------------------------------
(* index.js: bootstrap, from the conversations.history response to the
   decision whether the channel gets a bootstrap canvas *)

MaxHistory == 11     \* user messages in a conversations.history response

\* String.prototype.trim, on a text given as its sequence of characters
RECURSIVE trimStart(_)
trimStart(t) == IF t # <<>> /\ Head(t) = " " THEN trimStart(Tail(t)) ELSE t
RECURSIVE trimEnd(_)
trimEnd(t) ==
    IF t # <<>> /\ t[Len(t)] = " " THEN trimEnd(SubSeq(t, 1, Len(t) - 1)) ELSE t
trim(t) == trimEnd(trimStart(t))

\* Array.prototype.reverse
Reverse(s) == [i \in 1..Len(s) |-> s[Len(s) + 1 - i]]

\* messages of a response: bot_id and subtype as their truthiness
HistoryMsg(bot, sub, text) == [bot_id |-> bot, subtype |-> sub, text |-> text, ts |-> 0]
UserMsg == HistoryMsg(FALSE, FALSE, <<"h", "i", " ">>)

\* runs of messages that are not part of the conversation
OtherRuns ==
    {<<>>,
     <<HistoryMsg(TRUE, FALSE, <<"h", "i">>)>>,
     <<HistoryMsg(FALSE, TRUE, <<"h", "i">>)>>,
     <<HistoryMsg(FALSE, FALSE, <<>>)>>,
     <<HistoryMsg(FALSE, FALSE, <<" ", " ">>)>>,
     <<HistoryMsg(TRUE, TRUE, <<>>), HistoryMsg(FALSE, TRUE, <<" ">>),
       HistoryMsg(TRUE, FALSE, <<>>), HistoryMsg(FALSE, FALSE, <<" ">>)>>}

\* result.messages, newest first: ts falls along the list
Stamped(s) == [i \in 1..Len(s) |-> [s[i] EXCEPT !.ts = Len(s) + 1 - i]]
Histories ==
    {Stamped(o \o [i \in 1..u |-> UserMsg]) : o \in OtherRuns, u \in 0..MaxHistory}
    \cup {Stamped([i \in 1..u |-> UserMsg] \o o) : o \in OtherRuns, u \in 0..MaxHistory}

\* (a filter that lets subtyped messages through)
KeepsIgnoringSubtype(msg) ==
    ~msg.bot_id /\ msg.text # <<>> /\ Len(trim(msg.text)) > 0

\* msg => !msg.bot_id && !msg.subtype && msg.text && msg.text.trim().length > 0
Keeps(msg) ==
    ~msg.bot_id /\ ~msg.subtype /\ msg.text # <<>> /\ Len(trim(msg.text)) > 0

conversationMessages(messages) == Reverse(SelectSeq(messages, Keeps))

\* A bootstrap whose conversations.history call is answered with any of the
\* histories; bootstrapChannelCanvas or bootstrapChannelCanvasWithClient,
\* with or without a say.
InitBoot ==
    /\ build = "index"
    /\ env = required
    /\ isOAuthMode = FALSE
    /\ sequential = FALSE
    /\ now = 0
    /\ nextTs = 1
    /\ lastTs = MaxMsgs
    /\ \E h \in Histories, s, w \in BOOLEAN :
          procs = One([Free EXCEPT !.kind = "boot", !.pc = "history", !.say = s,
                                   !.wc = w, !.snap = h])
    /\ attached \in [Channels -> {0, 1}]
    /\ nextCanvas = 2
    /\ createCalls = [c \in Channels |-> 0]
    /\ cacheCleared = [c \in Channels |-> FALSE]
    /\ channelData = [c \in Channels |-> NoData]
    /\ canvasData = [c \in Channels |-> 0]
    /\ bootstrappedChannels = {}
    /\ workspaceData = [c \in Channels |-> NoChannel]
    /\ processingLocks = {}

\* bootstrap: conversations.history returned r.snap; with enough conversation
\* messages the call goes on to generateSummary(conversationMessages),
\* otherwise the channel is marked and the call returns
FilterHistory(r) ==
    /\ build = "index"
    /\ r.kind = "boot" /\ r.pc = "history"
    /\ LET conv == conversationMessages(r.snap) IN
       IF Len(r.snap) > 0 /\ Len(conv) >= MIN_MESSAGES_FOR_BOOTSTRAP
       THEN /\ procs' = Move(procs, r, [r EXCEPT !.pc = "summary", !.snap = conv])
            /\ UNCHANGED bootstrappedChannels
       ELSE /\ procs' = Drop(procs, r)
            /\ bootstrappedChannels' = bootstrappedChannels \cup {r.ch}
    /\ UNCHANGED <<run, now, nextTs, channelData, canvasData, entStore, platform, history>>

BootSpec == InitBoot /\ [][\E r \in Live : FilterHistory(r)]_vars
----------------------------------------------------------------------------
(* index.js: the cleanup interval *)

CLEANUP_AGE == 60 * 60 * 1000
CLEANUP_PERIOD == 30 * 60 * 1000

\* A long quiet period: time passes up to a moment the cleanup interval fires
\* at, an hour or an hour and a half after start-up.
LateTick ==
    /\ \A r \in Live : r.pc # "timer"
    /\ \E t \in {2 * CLEANUP_PERIOD, 3 * CLEANUP_PERIOD} :
         /\ now < t
         /\ now' = t
    /\ UNCHANGED <<run, nextTs, indexStore, entStore, procs, platform, history>>

\* (a callback that does not look at the buffer)
IdleIgnoringBuffer(c) ==
    /\ channelData[c].obj # 0
    /\ channelData[c].lastBatchTime < now - CLEANUP_AGE

\* what one run of the callback removes
Idle(c) ==
    /\ channelData[c].obj # 0
    /\ channelData[c].lastBatchTime < now - CLEANUP_AGE
    /\ Len(channelData[c].messages) = 0

\* setInterval(() => { ... }, 30 * 60 * 1000): one run of the callback
Cleanup ==
    /\ build = "index"
    /\ now > 0 /\ now % CLEANUP_PERIOD = 0
    /\ channelData' = [c \in Channels |-> IF Idle(c) THEN NoData ELSE channelData[c]]
    /\ canvasData' = [c \in Channels |-> IF Idle(c) THEN 0 ELSE canvasData[c]]
    /\ bootstrappedChannels' = {c \in bootstrappedChannels : ~Idle(c)}
    /\ cacheCleared' = [c \in Channels |->
                           IF Idle(c) THEN sequential ELSE cacheCleared[c]]
    /\ UNCHANGED <<run, now, nextTs, entStore, procs, platform, createCalls>>

\* index.js in token mode over a run long enough for the cleanup
NextClean == NextNoJoin \/ LateTick \/ Cleanup

\* right after start-up: no channel is known
InitClean ==
    /\ isOAuthMode = FALSE
    /\ env = required
    /\ sequential = FALSE
    /\ InitIndex(0)

CleanSpec == InitClean /\ [][NextClean]_vars
----------------------------------------------------------------------------
(* index.js: generateSummary, the selection of the messages it sends *)

MaxInput == 520      \* messages handed to generateSummary
AI_TOKEN_SAFE_LIMIT == 400

\* Math.ceil(a / b), b > 0
Ceil(a, b) == (a + b - 1) \div b

\* Array.prototype.slice(a, b), 0 <= a
Slice(s, a, b) == SubSeq(s, a + 1, Min(b, Len(s)))

\* (a selection that keeps the last 301 messages)
selectMessagesForSummaryLongTail(messages) ==
    IF Len(messages) <= AI_TOKEN_SAFE_LIMIT THEN messages
    ELSE LET startMessages == Slice(messages, 0, 50)
             endMessages == LastK(messages, 301)
         IN IF Len(messages) > 350
            THEN LET middleSection == Slice(messages, 50, Len(messages) - 300)
                     sampleRate == Ceil(Len(middleSection), 50)
                     kept == [i \in 1..Ceil(Len(middleSection), sampleRate) |->
                                 middleSection[(i - 1) * sampleRate + 1]]
                     middleSample == Slice(kept, 0, 50)
                 IN startMessages \o middleSample \o endMessages
            ELSE startMessages \o endMessages

selectMessagesForSummary(messages) ==
    IF Len(messages) <= AI_TOKEN_SAFE_LIMIT THEN messages
    ELSE LET startMessages == Slice(messages, 0, 50)
             endMessages == LastK(messages, 300)
         IN IF Len(messages) > 350
            THEN LET middleSection == Slice(messages, 50, Len(messages) - 300)
                     sampleRate == Ceil(Len(middleSection), 50)
                     \* filter((_, index) => index % sampleRate === 0)
                     kept == [i \in 1..Ceil(Len(middleSection), sampleRate) |->
                                 middleSection[(i - 1) * sampleRate + 1]]
                     middleSample == Slice(kept, 0, 50)
                 IN startMessages \o middleSample \o endMessages
            ELSE startMessages \o endMessages

\* A call of generateSummary with any number of messages, the n-th message
\* being n.
InitSelect ==
    /\ build = "index"
    /\ env = required
    /\ isOAuthMode = FALSE
    /\ sequential = FALSE
    /\ now = 0
    /\ nextTs = 1
    /\ lastTs = MaxMsgs
    /\ \E n \in 0..MaxInput, k \in {"batch", "boot", "mention"} :
          procs = One([Free EXCEPT !.kind = k, !.pc = "summary", !.snap = Range(1, n)])
    /\ attached \in [Channels -> {0, 1}]
    /\ nextCanvas = 2
    /\ createCalls = [c \in Channels |-> 0]
    /\ cacheCleared = [c \in Channels |-> FALSE]
    /\ channelData = [c \in Channels |-> NoData]
    /\ canvasData = [c \in Channels |-> 0]
    /\ bootstrappedChannels = {}
    /\ workspaceData = [c \in Channels |-> NoChannel]
    /\ processingLocks = {}

\* generateSummary: selectMessagesForSummary(messages); the selected messages
\* are the ones sent with `await openai.chat.completions.create`
SelectForSummary(r) ==
    /\ build = "index"
    /\ r.pc = "summary"
    /\ procs' = Move(procs, r, [r EXCEPT !.pc = "openai",
                                         !.snap = selectMessagesForSummary(r.snap)])
    /\ UNCHANGED <<run, now, nextTs, indexStore, entStore, platform, history>>

SelectSpec == InitSelect /\ [][\E r \in Live : SelectForSummary(r)]_vars
----------------------------------------------------------------------------
(* Properties *)

\* processBatch cycles (generateSummary + updateCanvas) in flight for a channel
InFlight(ps, c) ==
    LET B(r) == r.ch = c /\ r.kind = "batch" /\ r.pc # "timer" IN Count(ps, B)

\* the call r returns to the event loop in this step
Ends(r) ==
    /\ CopiesIn(r, procs') < CopiesIn(r, procs)
    /\ BagCardinality(procs') < BagCardinality(procs)

\* C1: in index.js at most one processBatch cycle is in flight for a channel
\* at any time, whatever the interleaving of messages and autoUpdateCanvases.
C1_OneCycleInFlight == \A c \in Channels : InFlight(procs, c) <= 1

\* paper-enterprise.js: the awaits of a cycle, from generateSummary (which
\* starts with users.info calls) to the return of updateCanvas
CyclePcs == {"summary", "uclient", "lclient", "lookup", "create", "edit"}

\* C2: a trigger that comes while a cycle is in flight for the channel makes
\* no platform call before that cycle completes; a cycle starts with platform
\* calls, so while a processMessages cycle is in flight no other cycle of the
\* channel, of processMessages or of a mention, is (paper-enterprise.js).
C2_SecondTriggerSilent ==
    \A c \in Channels :
        LET P(r) == r.ch = c /\ r.pc \in CyclePcs
        IN (\E r \in Live : P(r) /\ r.kind = "pm") => Count(procs, P) <= 1

\* conversations.canvases.create calls awaiting their answer
CreatesInFlight(c) ==
    LET P(r) == r.ch = c /\ r.pc \in {"create", "wcreate"} IN Count(procs, P)

\* canvases the platform created in this run
Created == nextCanvas - 2

\* C3 as stated: over non-overlapping cycles in which the cached canvas id is
\* never discarded, at most one conversations.canvases.create call is issued,
\* failed calls included.
C3_OneCreateCall ==
    \A c \in Channels : (sequential /\ ~cacheCleared[c]) => createCalls[c] <= 1

\* C3 amended: over non-overlapping cycles in which the cached canvas id is
\* never discarded, at most one create call succeeds and none is issued after
\* it; a failed create is issued again by the next cycle.
C3_OneCreateSucceeds ==
    \A c \in Channels :
        (sequential /\ ~cacheCleared[c]) => Created + CreatesInFlight(c) <= 1

\* C3 witness: a create call failed, the next cycle issued it again and it
\* succeeded, with the cached id never discarded.
C3_Witness ==
    \E c \in Channels :
        /\ sequential /\ ~cacheCleared[c]
        /\ createCalls[c] = 2 /\ Created = 1 /\ canvasData[c] = attached[c]
        /\ CreatesInFlight(c) = 0

\* C4: two canvas updates of one channel never both find no canvas and both
\* issue conversations.canvases.create (index.js).
C4_OneCreateAtATime == \A c \in Channels : CreatesInFlight(c) <= 1

\* C5: when a processMessages cycle of paper-enterprise.js completes, the
\* buffer holds exactly the messages that arrived after its snapshot, in
\* arrival order.
C5_NewMessagesKept ==
    [][\A r \in Live :
          (r.kind = "pm" /\ r.snap # <<>> /\ Ends(r)) =>
              workspaceData'[r.ch].messages = Range(r.snap[Len(r.snap)] + 1, nextTs - 1)]_vars

\* C6: when processMessages of app.js finishes, the messages that arrived
\* after the ones it summarised are still in the buffer.
C6_ArrivalsKept ==
    [][\A r \in Live :
          (r.kind = "apm" /\ r.snap # <<>> /\ Ends(r)) =>
              \A i \in 1..Len(workspaceData[r.ch].messages) :
                  workspaceData[r.ch].messages[i] > r.snap[Len(r.snap)] =>
                      \E j \in 1..Len(workspaceData'[r.ch].messages) :
                          workspaceData'[r.ch].messages[j] = workspaceData[r.ch].messages[i]]_vars

\* C7: while a processBatch cycle is in flight on the channel's record, the
\* record's pendingUpdate flag is true (index.js).
C7_FlagHeld ==
    \A c \in Channels : \A r \in Live :
        (r.ch = c /\ r.kind = "batch" /\ r.pc # "timer" /\ r.obj = channelData[c].obj)
            => channelData[c].pendingUpdate

\* The busy flag of a channel's live record is true only while a cycle that
\* set it is in flight.
FlagOnlyWhileInFlight ==
    \A c \in Channels :
        /\ channelData[c].pendingUpdate =>
              \E r \in Live : /\ r.ch = c /\ r.kind = "batch" /\ r.pc # "timer"
                              /\ r.obj = channelData[c].obj
        /\ workspaceData[c].processing =>
              \E r \in Live : r.ch = c /\ r.kind = "pm" /\ r.pc # "timer"

\* C8: every cycle that sets the busy flag clears it on every exit path: the
\* flag of a channel's live record is never true without a cycle in flight,
\* and a flag that is true is false again later (pendingUpdate in index.js,
\* processing in paper-enterprise.js).
C8_FlagReleased ==
    /\ []FlagOnlyWhileInFlight
    /\ \A c \in Channels :
        /\ channelData[c].pendingUpdate ~> ~channelData[c].pendingUpdate
        /\ workspaceData[c].processing ~> ~workspaceData[c].processing

\* C8 witness: the record the run started with has been through a cycle
\* after time passed (lastBatchTime was rewritten) and its flag is clear
\* with no cycle in flight.
C8_Witness ==
    \E c \in Channels :
        /\ channelData[c].obj = 1 /\ Len(channelData[c].messages) >= BATCH_MESSAGE_LIMIT
        /\ channelData[c].lastBatchTime > 0
        /\ ~channelData[c].pendingUpdate
        /\ InFlight(procs, c) = 0

\* C9: the bootstrap path fetches the history and summarises at most once
\* per channel: no two bootstrap calls of a channel are past the
\* already-bootstrapped check at the same time (index.js).
C9_BootstrapOnce ==
    \A c \in Channels :
        LET P(r) == r.ch = c /\ r.kind = "boot" /\ r.pc \in {"history", "summary"}
        IN Count(procs, P) <= 1

\* C10: within one time window a message schedules a processBatch exactly
\* when it is the tenth of the buffer: not the ninth, and no later message
\* schedules another one for the same ten (index.js).
C10_TenthMessageOnly ==
    [][\A c \in Channels :
          (/\ build = "index"
           /\ nextTs' = nextTs + 1
           /\ now - channelData'[c].lastBatchTime < BATCH_TIME_WINDOW)
          => (CopiesIn(BatchTimer(c), procs') > CopiesIn(BatchTimer(c), procs)
                 <=> Len(channelData'[c].messages) = BATCH_MESSAGE_LIMIT)]_vars


\* C11: with fewer than ten messages buffered (three or more), a message
\* schedules a cycle exactly when two minutes (BATCH_TIME_WINDOW) or more
\* have passed since the channel's last flush: once they have passed, and
\* never before (paper-enterprise.js).
C11_TimeTrigger ==
    [][\A c \in Channels :
          LET PmTimer == [Free EXCEPT !.kind = "pm", !.pc = "timer", !.ch = c]
              buffered == Len(workspaceData'[c].messages)
          IN (/\ build = "enterprise"
              /\ nextTs' = nextTs + 1
              /\ ~workspaceData'[c].processing
              /\ buffered >= MIN_MESSAGES_TO_PROCESS
              /\ buffered < ENT_MESSAGE_TRIGGER)
             => (CopiesIn(PmTimer, procs') > CopiesIn(PmTimer, procs)
                    <=> now - workspaceData'[c].lastUpdate >= BATCH_TIME_WINDOW)]_vars

\* C12: when canvases.edit on the cached canvas id fails with
\* canvas_not_found, the cached id is cleared.  In updateCanvas an edit of a
\* canvas that no longer exists throws canvas_not_found and the call enters
\* the catch block, which awaits the fallback message: after that step the
\* id it edited is no longer the cached one (index.js, single-workspace
\* branch).
C12_StaleIdCleared ==
    [][\A r \in Live :
          (/\ build = "index"
           /\ r.pc = "edit"
           /\ r.cid # attached[r.ch]
           /\ canvasData[r.ch] = r.cid
           /\ procs' = Move(procs, r, [r EXCEPT !.pc = "fallback"]))
          => canvasData'[r.ch] # r.cid]_vars

\* C13: when a platform call of a cycle or a bootstrap reports
\* channel_not_found, the channel has no buffer entry, no cached canvas id
\* and no bootstrap flag once the operation has returned.  A call awaiting
\* the conversations.info of getExistingCanvasId ends at that step only on
\* channel_not_found (index.js).
C13_PurgedOnNotFound ==
    [][\A r \in Live :
          (/\ build = "index"
           /\ r.pc = "lookup"
           /\ procs' = Drop(procs, r))
          => (/\ channelData'[r.ch].obj = 0
              /\ canvasData'[r.ch] = 0
              /\ r.ch \notin bootstrappedChannels')]_vars

\* C14: when the canvas create call fails, the call goes on to post the
\* summary as a plain chat message.  A conversations.canvases.create of
\* updateCanvasWithClient that creates no canvas and leaves the stores as
\* they are (response not ok, or an error other than channel_not_found) is
\* followed by the fallback chat.postMessage (index.js).
C14_FallbackPosted ==
    [][\A r \in Live :
          (/\ build = "index"
           /\ r.pc = "wcreate"
           /\ CopiesIn(r, procs') < CopiesIn(r, procs)
           /\ nextCanvas' = nextCanvas
           /\ UNCHANGED indexStore)
          => procs' = Move(procs, r, [r EXCEPT !.pc = "fallback"])]_vars

C16_ManualSkipsWhileBusy ==
    [][\A r \in Live :
          (/\ build = "index"
           /\ r.kind = "mention"
           /\ r.pc = "mhistory"
           /\ r.busy)
          => procs' # Move(procs, r, [r EXCEPT !.pc = "summary", !.busy = FALSE])]_vars

\* C17: two canvas writes for a channel are at least three minutes
\* (CANVAS_UPDATE_DEBOUNCE) apart: a canvas created since start-up (the ids
\* above 1) has its content replaced by canvases.edit only once the clock
\* has reached three minutes (index.js).
C17_WritesDebounced ==
    [][\A r \in Live :
          (/\ build = "index"
           /\ r.pc = "edit"
           /\ r.cid = attached[r.ch]
           /\ r.cid > 1
           /\ procs' = Move(procs, r, [r EXCEPT !.pc = "titleedit"]))
          => now >= CANVAS_UPDATE_DEBOUNCE]_vars

\* C18: every app_mention summary request is answered through say: the
\* handler of a bootstrapped channel ends only where it awaits say, that is
\* on a failed workspace resolution or on a history fetch that failed or
\* held fewer than three messages, and never straight out of updateCanvas
\* (index.js).
C18_MentionAnswered ==
    [][\A r \in Live :
          (/\ build = "index"
           /\ r.kind = "mention"
           /\ CopiesIn(r, procs') < CopiesIn(r, procs)
           /\ BagCardinality(procs') < BagCardinality(procs))
          => r.pc \in {"minfo", "minstall", "mhistory"}]_vars

\* C19: a batch cycle, also one whose generateSummary returned the
\* placeholder, removes the messages it consumed from the buffer so that
\* they are not summarized again: when processBatch ends on the record it
\* started with, the buffer is no longer the whole run of messages received
\* so far (index.js).
C19_SnapshotRemoved ==
    [][\A r \in Live :
          (/\ build = "index"
           /\ r.kind = "batch"
           /\ r.pc \in WriterPcs
           /\ procs' = Drop(procs, r)
           /\ channelData[r.ch].obj = r.obj
           /\ channelData'[r.ch].obj = r.obj)
          => channelData'[r.ch].messages # Range(1, nextTs - 1)]_vars

\* C20: when the bootstrap started by the trigger of app.message has
\* returned, whatever failed on the way (workspace resolution, channel info,
\* history, a purge by the canvas write), the channel is marked
\* bootstrapped (index.js).
C20_MarkedAfterBootstrap ==
    [][\A r \in Live :
          (/\ build = "index"
           /\ r.kind = "boot"
           /\ ~r.say
           /\ r.pc # "timer"
           /\ procs' = Drop(procs, r))
          => r.ch \in bootstrappedChannels']_vars

\* C21: when a processBatch cycle completes, the messages it summarized are
\* gone from the channel's buffer: on the record the cycle started with, to
\* which messages are only ever appended, the buffer left behind is empty
\* or no longer begins with the message it began with (index.js).
C21_BufferResetAfterCycle ==
    [][\A r \in Live :
          (/\ build = "index"
           /\ r.kind = "batch"
           /\ r.pc \in WriterPcs
           /\ procs' = Drop(procs, r)
           /\ channelData[r.ch].obj = r.obj
           /\ channelData'[r.ch].obj = r.obj)
          => \/ channelData'[r.ch].messages = <<>>
             \/ Head(channelData'[r.ch].messages) # Head(channelData[r.ch].messages)]_vars

\* Two workspaces that share a channel id (a Slack Connect channel).
Workspaces == {"W1", "W2"}

\* index.js keeps channelData, canvasData and bootstrappedChannels keyed by
\* the channel id alone: what it holds for the pair (w, c).
PairState(w, c) == <<channelData[c], canvasData[c], c \in bootstrappedChannels>>

\* index.js app.message for a message of workspace w in channel c: the handler
\* reads message.channel only.
MessageEvent(w, c) == OnMessage(c)

\* C22: channel state is held per (workspace, channel) pair: a message event
\* for (w1, c) leaves the buffer, cached canvas id, busy flag and bootstrap
\* flag of (w2, c) unchanged for every other workspace w2 (index.js,
\* multi-workspace mode).
C22_PairIsolated ==
    [][\A w1, w2 \in Workspaces : \A c \in Channels :
          (/\ build = "index"
           /\ isOAuthMode
           /\ w1 # w2
           /\ MessageEvent(w1, c))
          => PairState(w2, c)' = PairState(w2, c)]_vars

\* the message buffer of a channel and its cap in the build that runs
Buffer(c) == IF build = "index" THEN channelData[c].messages ELSE workspaceData[c].messages
Cap == IF build = "index" THEN MAX_MESSAGES_FOR_SUMMARY ELSE BUFFER_CAP

\* C23: a channel's buffer never holds more than the cap (500 in index.js,
\* 100 in paper-enterprise.js), and an append keeps the new message last,
\* behind the old buffer in its order less the oldest messages, of which it
\* evicts just as many as the cap requires.
C23_BufferCapped ==
    /\ [](\A c \in Channels : Len(Buffer(c)) <= Cap)
    /\ [][\A c \in Channels :
             nextTs' = nextTs + 1
             => LET old == Buffer(c)
                    evicted == IF Len(old) < Cap THEN 0 ELSE Len(old) + 1 - Cap
                IN Buffer(c)' = Append(From(old, evicted), nextTs)]_vars

\* a buffer at its cap that has lost its oldest message to an append
C23_Witness ==
    \E c \in Channels :
        /\ Len(Buffer(c)) = Cap
        /\ Head(Buffer(c)) = 2
        /\ Buffer(c)[Cap] = Cap + 1

\* C24: forward progress: a channel with buffered messages eventually has
\* them taken into a synchronization cycle, also when no further message
\* arrives and the count threshold is never reached (paper-enterprise.js).
C24_EventuallyFlushed ==
    \A c \in Channels :
        (build = "enterprise" /\ workspaceData[c].messages # <<>>)
        ~> (\E r \in Live : r.ch = c /\ r.kind = "pm" /\ r.snap # <<>>)

\* C25: no failure of a platform call, a failing say inside an error handler
\* included, escapes the bootstrap as an unhandled rejection: Node never
\* ends the process on one (index.js).
C25_NoUnhandledRejection == build # "halted"

\* C26: start-up of index.js, for every combination of variables set: with
\* the OAuth variables (SLACK_CLIENT_ID and SLACK_CLIENT_SECRET) it runs in
\* multi-workspace mode; without them but with the token variables it runs
\* in single-workspace mode; with neither set it exits.
C26_ModeFromEnv ==
    build # "starting"
    => IF OAuthVars \subseteq env THEN build = "index" /\ isOAuthMode
       ELSE IF required \subseteq env THEN build = "index" /\ ~isOAuthMode
       ELSE build = "halted"

\* C27: the inline check of paper-enterprise.js decides as shouldProcessBatch
\* does, for every message count and elapsed time: a message schedules
\* processMessages exactly when shouldProcessBatch, given the same buffer,
\* time of the last flush and busy flag, returns true.
C27_SameDecision ==
    [][\A c \in Channels :
          LET PmTimer == [Free EXCEPT !.kind = "pm", !.pc = "timer", !.ch = c]
              data == [obj |-> 1,
                       messages |-> workspaceData'[c].messages,
                       lastBatchTime |-> workspaceData'[c].lastUpdate,
                       pendingUpdate |-> workspaceData'[c].processing]
          IN (build = "enterprise" /\ nextTs' = nextTs + 1)
             => (CopiesIn(PmTimer, procs') > CopiesIn(PmTimer, procs)
                    <=> shouldProcessBatch([d \in Channels |-> data], c))]_vars

\* C28: a cycle that finds no cached canvas id on a channel to which the
\* platform has a canvas attached caches the attached id and goes on to
\* canvases.edit on that id; it does not go on to
\* conversations.canvases.create.  (A channel the platform reports as
\* channel_not_found is dropped instead.)  index.js.
C28_AttachedCanvasReused ==
    [][\A r \in Live :
          (/\ build = "index"
           /\ r.pc = "lookup"
           /\ attached[r.ch] # 0
           /\ LookupReturns(r))
          => \/ /\ canvasData'[r.ch] = attached[r.ch]
                /\ procs' = Move(procs, r, [r EXCEPT !.pc = "edit",
                                                     !.cid = attached[r.ch]])
             \/ PurgeAndReturn(r)]_vars

\* C29: a cycle goes on to conversations.canvases.create only from a
\* conversations.info call of its own that came back and reported no canvas
\* attached to the channel: never without such a call, and never while the
\* platform has a canvas attached to the channel.
C29_CreateOnlyAfterEmptyLookup ==
    [][\A r \in Live : \A pc \in {"create", "wcreate"} :
          (/\ r.pc # pc
           /\ procs' = Move(procs, r, [r EXCEPT !.pc = pc, !.cid = 0]))
          => /\ r.pc \in {"lookup", "wlookup"}
             /\ attached[r.ch] = 0]_vars

\* the canvas id the program has cached for a channel (0: none)
CachedId(c) ==
    IF build = "enterprise" THEN workspaceData[c].canvasId ELSE canvasData[c]

\* a call that has just arrived at one of the given positions
NewAt(pcs) ==
    \E q \in BagToSet(procs') :
        q.pc \in pcs /\ CopiesIn(q, procs') > CopiesIn(q, procs)

\* C30: when conversations.canvases.create fails (it throws, or its response
\* is not ok: the platform attaches no canvas), a channel without a cached
\* canvas id is still without one after that step; and a cycle that enters
\* the canvas update of a channel without a cached id goes to the lookup
\* (or ends), never straight to canvases.edit or to the create call.
C30_FailedCreateRetriesLookup ==
    [][\A r \in Live :
          /\ (/\ r.pc \in {"create", "wcreate"}
              /\ CopiesIn(r, procs') < CopiesIn(r, procs)
              /\ attached' = attached
              /\ CachedId(r.ch) = 0)
             => CachedId(r.ch)' = 0
          /\ (/\ r.pc = IF build = "enterprise" THEN "uclient" ELSE "summary"
              /\ CopiesIn(r, procs') < CopiesIn(r, procs)
              /\ CachedId(r.ch) = 0)
             => ~NewAt({"edit", "create", "wedit", "wcreate"})]_vars

\* a create call has failed (its cycle is at the fallback message, holding
\* no canvas id), the channel has no cached id, and another cycle on the
\* channel is at the lookup
C30_Witness ==
    \E r, q \in Live :
        /\ build = "index"
        /\ r.pc = "fallback" /\ r.cid = 0
        /\ CachedId(r.ch) = 0
        /\ q.ch = r.ch /\ q.pc = "lookup"

\* C31: in updateCanvas, once the content edit of an existing canvas has
\* succeeded, the return of the separate title edit (its failure is caught)
\* ends the canvas update as a success: no fallback chat message is begun,
\* the cached canvas id is unchanged and neither the channel's record nor
\* its bootstrapped mark is removed (index.js).
C31_TitleFailureIgnored ==
    [][\A r \in Live :
          (/\ build = "index"
           /\ r.pc = "titleedit"
           /\ TitleEditReturns(r))
          => /\ ~NewAt({"fallback"})
             /\ canvasData'[r.ch] = canvasData[r.ch]
             /\ r.ch \in bootstrappedChannels => r.ch \in bootstrappedChannels'
             /\ channelData[r.ch].obj # 0
                   => channelData'[r.ch].obj = channelData[r.ch].obj]_vars

\* a bootstrap that found the platform's canvas, whose content edit went
\* through and whose title edit has returned: it is at its reply and the
\* cached id is still that canvas
C31_Witness ==
    \E r \in Live :
        /\ build = "index"
        /\ r.kind = "boot" /\ r.pc = "say"
        /\ r.cid # 0
        /\ r.cid = attached[r.ch]
        /\ r.cid < 2
        /\ canvasData[r.ch] = r.cid

\* C32: when a processMessages cycle that has issued its canvas write
\* completes, whether the write succeeded or failed, the channel's lastUpdate
\* is the completion time (paper-enterprise.js).
C32_FlushTimeRecorded ==
    [][\A r \in Live :
          (/\ build = "enterprise"
           /\ r.kind = "pm"
           /\ r.pc \in {"create", "edit"}
           /\ procs' = Drop(procs, r))
          => workspaceData'[r.ch].lastUpdate = now]_vars

\* positions of the messages of a history that are part of the conversation:
\* not from a bot, without subtype, with a text that is not only spaces
Conversation(h) ==
    {i \in 1..Len(h) :
        /\ ~h[i].bot_id
        /\ ~h[i].subtype
        /\ \E j \in 1..Len(h[i].text) : h[i].text[j] # " "}

\* C33: a bootstrap goes on to summarization and the canvas update exactly
\* when at least MIN_MESSAGES_FOR_BOOTSTRAP messages of the fetched history
\* are part of the conversation; with fewer it makes no further call, marks
\* the channel bootstrapped and changes nothing else (index.js).
C33_BootstrapThreshold ==
    [][\A r \in Live :
          FilterHistory(r)
          => IF Cardinality(Conversation(r.snap)) >= MIN_MESSAGES_FOR_BOOTSTRAP
             THEN /\ NewAt({"summary"})
                  /\ UNCHANGED bootstrappedChannels
             ELSE /\ procs' = EmptyBag
                  /\ bootstrappedChannels' = bootstrappedChannels \cup {r.ch}
                  /\ UNCHANGED <<channelData, canvasData, platform>>]_vars

\* a bootstrap at generateSummary with exactly the minimum of conversation
\* messages, oldest first, left of a history whose four oldest were others
C33_Witness ==
    \E r \in Live :
        /\ r.kind = "boot" /\ r.pc = "summary"
        /\ Len(r.snap) = MIN_MESSAGES_FOR_BOOTSTRAP
        /\ r.snap[1].ts = 5
        /\ r.snap[MIN_MESSAGES_FOR_BOOTSTRAP].ts = MIN_MESSAGES_FOR_BOOTSTRAP + 4

Entry(c) == <<channelData[c], canvasData[c], c \in bootstrappedChannels>>

\* C35: a run of the cleanup callback removes exactly the entries of the
\* channels whose buffer is empty and whose last flush is more than an hour
\* old; every other entry, in particular one with a non-empty buffer, a
\* recent flush or a processBatch cycle in flight (pendingUpdate), is left
\* as it was (index.js).
C35_CleanupRemovesIdleOnly ==
    [][Cleanup
       => \A c \in Channels :
             /\ IF /\ channelData[c].obj # 0
                   /\ channelData[c].messages = <<>>
                   /\ now - channelData[c].lastBatchTime > 60 * MINUTE
                THEN Entry(c)' = <<NoData, 0, FALSE>>
                ELSE Entry(c)' = Entry(c)
             /\ channelData[c].pendingUpdate => Entry(c)' = Entry(c)]_vars

\* an hour and a half into the run, with no call in flight, the channel for
\* which the program created a canvas has no record, no cached canvas id and
\* no bootstrapped mark
C35_Witness ==
    \E c \in Channels :
        /\ build = "index"
        /\ now = 3 * CLEANUP_PERIOD
        /\ procs = EmptyBag
        /\ attached[c] >= 2
        /\ Entry(c) = <<NoData, 0, FALSE>>

\* C35 as stated: also an entry for whose channel any cycle is in flight, a
\* manual summary or a bootstrap included, is left as it was.
C35_AnyCycleProtects ==
    [][Cleanup
       => \A c \in Channels :
             (\E r \in Live : r.ch = c /\ r.pc # "timer") => Entry(c)' = Entry(c)]_vars

\* C36: a caller that awaits getWorkspaceClient can tell a workspace that was
\* never installed from a failed lookup: the value getWorkspaceClient
\* answers when fetchInstallation finds no record is not the value it
\* answers when fetchInstallation throws (paper-enterprise.js).
C36_MissDistinguishable ==
    \A r \in Live :
        (build = "enterprise" /\ r.pc \in {"pclient", "uclient", "lclient", "mclient"})
        => getWorkspaceClient("none") # getWorkspaceClient("threw")

\* C37: for every input list, selectMessagesForSummary returns at most
\* AI_TOKEN_SAFE_LIMIT messages, in the order of the input and none twice
\* (the n-th input message being n: a strictly increasing list of input
\* messages); the input itself when that has at most 400 messages, and
\* otherwise its first 50 and its last 300 messages with at most 50 others
\* between them.
C37_SelectionBounded ==
    [][\A r \in Live : \A q \in BagToSet(procs') :
          (SelectForSummary(r) /\ q.pc = "openai")
          => LET in == r.snap
                 out == q.snap
             IN /\ Len(out) <= AI_TOKEN_SAFE_LIMIT
                /\ \A i \in 1..Len(out) : out[i] \in 1..Len(in)
                /\ \A i \in 1..(Len(out) - 1) : out[i] < out[i + 1]
                /\ Len(in) <= 400 => out = in
                /\ Len(in) > 400
                      => /\ SubSeq(out, 1, 50) = SubSeq(in, 1, 50)
                         /\ SubSeq(out, Len(out) - 299, Len(out))
                               = SubSeq(in, Len(in) - 299, Len(in))
                         /\ Len(out) - 350 <= 50]_vars

\* 450 messages went in; the 400 that come out are the first 50, every
\* second one of the next 100 and the last 300
C37_Witness ==
    \E q \in Live :
        /\ q.pc = "openai"
        /\ Len(q.snap) = 400
        /\ q.snap[50] = 50 /\ q.snap[51] = 51 /\ q.snap[52] = 53
        /\ q.snap[100] = 149 /\ q.snap[101] = 151
        /\ q.snap[400] = 450

\* C38: a bootstrap is never inside updateCanvas for a channel while a
\* processBatch cycle or a manual summary is inside updateCanvas for the
\* same channel (index.js).
C38_BootstrapExcluded ==
    \A r, q \in Live :
        (/\ build = "index"
         /\ r.kind = "boot"
         /\ q.kind \in {"batch", "mention"}
         /\ q.ch = r.ch)
        => ~(/\ r.pc \in {"lookup", "create", "edit", "titleedit"}
             /\ q.pc \in {"lookup", "create", "edit", "titleedit"})

\* content replacements (canvases.edit on the canvas attached to the channel)
\* that processBatch cycles and manual summaries have issued through
\* updateCanvas and that have not returned
ContentWrites(c) ==
    LET P(r) == /\ r.ch = c /\ r.kind \in {"batch", "mention"}
                /\ r.pc = "edit" /\ r.cid = attached[c]
    IN Count(procs, P)

\* C39: the canvas writes of a channel take effect in the order in which
\* their message snapshots were taken, never an older summary over a newer
\* one; the calls are not numbered, so the order of two replacements is
\* fixed only when the second is issued after the first has returned: no
\* two content replacements of one canvas are in flight at once (index.js).
C39_WritesInSnapshotOrder ==
    build = "index" => \A c \in Channels : ContentWrites(c) <= 1

\* paper-enterprise.js: the awaits inside the locked body of updateCanvas
BodyPcs == {"uclient", "lclient", "lookup", "create", "edit"}

\* the calls of updateCanvas whose body is executing for channel c
Bodies(c) ==
    LET P(r) == r.ch = c /\ r.pc \in BodyPcs IN Count(procs, P)

\* C40: in paper-enterprise.js processingLocks holds the entry of a channel
\* exactly while one updateCanvas body for it is executing: after every
\* step the entry is there if and only if one body is, whatever the exit of
\* the body was, and a call skipped because the lock was held leaves the
\* map as it was.
C40_LockHeldWhileBodyRuns ==
    [][build = "enterprise" =>
          /\ \A c \in Channels :
                /\ Bodies(c)' <= 1
                /\ (c \in processingLocks') <=> (Bodies(c)' = 1)
          /\ \A r \in Live :
                (r.ch \in processingLocks /\ EntSummaryReturns(r))
                => processingLocks' = processingLocks]_vars

\* a mention's updateCanvas holds the lock at conversations.canvases.create
\* while a processMessages cycle of the channel is about to call updateCanvas
C40_Witness ==
    /\ build = "enterprise"
    /\ "C1" \in processingLocks
    /\ \E r \in Live : r.kind = "emention" /\ r.ch = "C1" /\ r.pc = "create"
    /\ \E r \in Live : r.kind = "pm" /\ r.ch = "C1" /\ r.pc = "summary"
====
